---- MODULE Spec2Model ----
(***************************************************************************)
(* MailIntelKit (email_security_check): the SPF include walk, the SPF      *)
(* parser, DKIM selector discovery and the scoring engine, as state        *)
(* machines.  Strings are sequences of one-character strings, so that the  *)
(* regular expressions of dns_utils.py are computed character by           *)
(* character.  A falsy Python value (None, "", []) is the empty sequence.  *)
(***************************************************************************)
EXTENDS Integers, Sequences, FiniteSets, TLC

VARIABLES
    mode,           \* which entry point this behaviour exercises
    \* ---- resolve_spf_lookups ----
    zone,           \* the DNS TXT resolver: name -> the outcomes a query may have
    max_recursion,  \* parameter max_recursion
    stack,          \* the _recurse activations, innermost last
    visited,        \* nonlocal visited
    resolved,       \* nonlocal resolved
    errors,         \* nonlocal errors
    lookup_count,   \* nonlocal lookup_count
    queries,        \* log: every name handed to dns_query_txt, in order
    entered,        \* log: every _recurse activation (name, txt, depth)
    answers,        \* log: every outcome of dns_query_txt's resolver call (name, kind)
    \* ---- parse_spf ----
    spf_text,       \* argument spf_text
    record,         \* the returned dict (<<>> before the call)
    parse_pc,       \* "call" | "done"
    \* ---- discover_dkim_selectors ----
    aggressive,     \* argument aggressive
    published,      \* the DNS zone: the selectors that have a TXT record
    dkim_i,         \* position of the for loop in the selector list
    outstanding,    \* the selectors whose TXT query is in flight
    probes,         \* log: every selector probed, in order, with its answer
    found,          \* local found
    dkim_pc,        \* "loop" | "await" | "done"
    \* ---- score_and_conclusions ----
    inp,            \* what has been read of the arguments that decide the branches
    cur,            \* the argument value the last rule read (<<>>: none)
    score,          \* local score
    reasons,        \* local reasons
    deductions,     \* log: the number of "score -= n" statements executed
    score_pc,       \* position in the function body
    loop_i          \* elements the running for loop has consumed

spfVars   == <<zone, max_recursion, stack, visited, resolved, errors, lookup_count,
               queries, entered, answers>>
parseVars == <<spf_text, record, parse_pc>>
dkimVars  == <<aggressive, published, dkim_i, outstanding, probes, found, dkim_pc>>
scoreVars == <<inp, cur, score, reasons, deductions, score_pc, loop_i>>
vars      == <<mode, spfVars, parseVars, dkimVars, scoreVars>>

----------------------------------------------------------------------------
(* Characters and Python's str helpers *)

Uppers == <<"A","B","C","D","E","F","G","H","I","J","K","L","M",
            "N","O","P","Q","R","S","T","U","V","W","X","Y","Z">>
Lowers == <<"a","b","c","d","e","f","g","h","i","j","k","l","m",
            "n","o","p","q","r","s","t","u","v","w","x","y","z">>
Digits == {"0","1","2","3","4","5","6","7","8","9"}

Range(s) == {s[i] : i \in DOMAIN s}

\* \w of the re module (ASCII letters, digits, underscore)
IsWordChar(c) == c \in Range(Uppers) \cup Range(Lowers) \cup Digits \cup {"_"}

\* \s of the re module, and what str.strip() removes
IsSpace(c) == c \in {" ", "\t", "\n", "\r"}

\* str.lower() on one character
LowerChar(c) ==
    IF c \in Range(Uppers)
    THEN Lowers[CHOOSE i \in DOMAIN Uppers : Uppers[i] = c]
    ELSE c

\* str.lower()
LowerStr(s) == [i \in DOMAIN s |-> LowerChar(s[i])]

\* str.strip()
Strip(s) ==
    LET keep == {i \in DOMAIN s : ~IsSpace(s[i])}
    IN  IF keep = {} THEN <<>>
        ELSE LET lo == CHOOSE i \in keep : \A j \in keep : i <= j
                 hi == CHOOSE i \in keep : \A j \in keep : j <= i
             IN  SubSeq(s, lo, hi)

\* str.startswith(p)
StartsWith(s, p) == Len(s) >= Len(p) /\ SubSeq(s, 1, Len(p)) = p

\* the regex assertion \b at the position before s[i] (i in 1..Len(s)+1)
WordBoundary(s, i) ==
    LET w(k) == k \in DOMAIN s /\ IsWordChar(s[k])
    IN  w(i - 1) # w(i)

\* a literal of a re.I pattern (lit in lower case) matched at position i
MatchLit(s, i, lit) ==
    /\ i >= 1
    /\ i + Len(lit) - 1 <= Len(s)
    /\ \A k \in DOMAIN lit : LowerChar(s[i + k - 1]) = lit[k]

\* [^\s]+ at position i, greedy: the length it consumes (0: no match)
NonSpaceRun(s, i) ==
    IF i \notin DOMAIN s THEN 0
    ELSE LET stops == {j \in i..(Len(s) + 1) : j = Len(s) + 1 \/ IsSpace(s[j])}
         IN  (CHOOSE j \in stops : \A k \in stops : j <= k) - i

L_include  == <<"i","n","c","l","u","d","e",":">>
L_exists   == <<"e","x","i","s","t","s",":">>
L_redirect == <<"r","e","d","i","r","e","c","t","=">>
L_ptr      == <<"p","t","r">>
L_mx       == <<"m","x">>
L_a        == <<"a">>
L_all      == <<"a","l","l">>
L_vspf1    == <<"v","=","s","p","f","1">>

\* <literal>[^\s]+ at position i: the length matched (0: no match)
PrefixedLen(s, i, lit) ==
    IF MatchLit(s, i, lit) /\ NonSpaceRun(s, i + Len(lit)) > 0
    THEN Len(lit) + NonSpaceRun(s, i + Len(lit))
    ELSE 0

\* <literal>\b at position i: the length matched (0: no match)
BareLen(s, i, lit) ==
    IF MatchLit(s, i, lit) /\ WordBoundary(s, i + Len(lit)) THEN Len(lit) ELSE 0

\* SPF_INCLUDE_RE at position i: the length matched (0: no match)
IncludeMatchLen(s, i) ==
    IF WordBoundary(s, i) THEN PrefixedLen(s, i, L_include) ELSE 0

\* SPF_REDIRECT_RE at position i
RedirectMatchLen(s, i) ==
    IF WordBoundary(s, i) THEN PrefixedLen(s, i, L_redirect) ELSE 0

\* SPF_MECHANISM_LOOKUP_RE at position i: the alternatives in the pattern's order
MechanismMatchLen(s, i) ==
    IF ~WordBoundary(s, i) THEN 0
    ELSE IF PrefixedLen(s, i, L_include) > 0 THEN PrefixedLen(s, i, L_include)
    ELSE IF PrefixedLen(s, i, L_exists) > 0 THEN PrefixedLen(s, i, L_exists)
    ELSE IF BareLen(s, i, L_ptr) > 0 THEN BareLen(s, i, L_ptr)
    ELSE IF BareLen(s, i, L_mx) > 0 THEN BareLen(s, i, L_mx)
    ELSE IF BareLen(s, i, L_a) > 0 THEN BareLen(s, i, L_a)
    ELSE PrefixedLen(s, i, L_redirect)

AllQualifiers == {"~", "-", "+", "?"}

\* SPF_ALL_RE at position i: \b, a qualifier, "all", \b
SpfAllMatchesAt(s, i) ==
    /\ i \in DOMAIN s
    /\ WordBoundary(s, i)
    /\ s[i] \in AllQualifiers
    /\ MatchLit(s, i + 1, L_all)
    /\ WordBoundary(s, i + 1 + Len(L_all))

\* SPF_MECHANISM_LOOKUP_RE.findall(s), scanning from position i
MechanismFindAll(s, i) ==
    LET scan[k \in 1..(Len(s) + 1)] ==
            IF k > Len(s) THEN <<>>
            ELSE LET n == MechanismMatchLen(s, k)
                 IN  IF n > 0 THEN <<SubSeq(s, k, k + n - 1)>> \o scan[k + n]
                     ELSE scan[k + 1]
    IN  scan[i]

\* SPF_INCLUDE_RE.findall(s), scanning from position i: the group, the target
IncludeFindAll(s, i) ==
    LET scan[k \in 1..(Len(s) + 1)] ==
            IF k > Len(s) THEN <<>>
            ELSE LET n == IncludeMatchLen(s, k)
                 IN  IF n > 0
                     THEN <<SubSeq(s, k + Len(L_include), k + n - 1)>> \o scan[k + n]
                     ELSE scan[k + 1]
    IN  scan[i]

\* SPF_REDIRECT_RE.findall(s), scanning from position i
RedirectFindAll(s, i) ==
    LET scan[k \in 1..(Len(s) + 1)] ==
            IF k > Len(s) THEN <<>>
            ELSE LET n == RedirectMatchLen(s, k)
                 IN  IF n > 0
                     THEN <<SubSeq(s, k + Len(L_redirect), k + n - 1)>> \o scan[k + n]
                     ELSE scan[k + 1]
    IN  scan[i]

\* SPF_ALL_RE.search(s): group(0) of the leftmost match, <<>> for None
SpfAllSearch(s) ==
    LET hits == {i \in DOMAIN s : SpfAllMatchesAt(s, i)}
    IN  IF hits = {} THEN <<>>
        ELSE LET i == CHOOSE i \in hits : \A j \in hits : i <= j
             IN  SubSeq(s, i, i + Len(L_all))

\* parse_spf
parse_spf(txt) ==
    LET redirect == RedirectFindAll(txt, 1)
    IN  [ raw               |-> txt,
          includes          |-> IncludeFindAll(txt, 1),
          redirect          |-> IF redirect # <<>> THEN redirect[1] ELSE <<>>,
          lookup_mechanisms |-> MechanismFindAll(txt, 1),
          all_mechanism     |-> SpfAllSearch(txt) ]

----------------------------------------------------------------------------
(* Bounds and program constants *)

MaxRec == 2                  \* largest max_recursion drawn for the general walks
MaxChain == 12               \* longest include chain drawn
MAX_INCLUDE_RECURSION == 10
SPF_DNS_LOOKUP_LIMIT == 10

----------------------------------------------------------------------------
(* The names and texts the walks are drawn from *)

N_r == <<"r">>
N_b == <<"b">>
N_c == <<"c">>
GenNames == {N_r, N_b, N_c}

\* the i-th domain of an include chain: b, c, d, ...
ChainName(i) == <<Lowers[i + 1]>>
ChainNames == {ChainName(i) : i \in 1..(MaxChain + 1)}
AllNames == GenNames \cup ChainNames

RECURSIVE JoinWords(_)
JoinWords(ws) ==
    IF ws = <<>> THEN <<>>
    ELSE IF Len(ws) = 1 THEN ws[1]
    ELSE ws[1] \o <<" ">> \o JoinWords(Tail(ws))

W_tilde_all == <<"~">> \o L_all
W_minus_all == <<"-">> \o L_all
W_INCLUDE   == <<"I","N","C","L","U","D","E",":">>

T_none  == JoinWords(<<L_vspf1, W_minus_all>>)
T_b     == JoinWords(<<L_vspf1, L_include \o N_b, L_mx, W_tilde_all>>)
T_bc    == JoinWords(<<L_vspf1, L_include \o N_b, L_include \o N_c, <<"A">>>>)
T_cc    == JoinWords(<<L_vspf1, L_include \o N_c, L_include \o N_c>>)
T_r     == JoinWords(<<L_vspf1, W_INCLUDE \o N_r, L_ptr>>)
T_many  == JoinWords(<<L_vspf1, L_include \o N_b, L_include \o N_r,
                       L_exists \o <<"x">>, L_redirect \o N_c>>)
T_other == <<"g","o","o","g","l","e","-","s","i","t","e","=","a">>
GenTexts == {T_none, T_b, T_bc, T_cc, T_r, T_many}

\* one TXT rdata whose strings are the given chunks
Rdata(chunks) == chunks

\* the outcomes resolver.resolve(name, "TXT") may have
Answer(rdatas) == [kind |-> "answer", rdatas |-> rdatas]
NoAnswer       == [kind |-> "no_answer", rdatas |-> <<>>]  \* NoAnswer, NXDOMAIN
DnsError       == [kind |-> "dns_error", rdatas |-> <<>>]  \* any other DNSException
OtherException == [kind |-> "exception", rdatas |-> <<>>]  \* not a DNSException

GenOutcomes ==
    {Answer(<<Rdata(<<t>>)>>) : t \in GenTexts}
    \cup {Answer(<<Rdata(<<T_b>>), Rdata(<<T_other>>), Rdata(<<T_cc>>)>>),
          Answer(<<Rdata(<<T_other>>)>>),
          Answer(<<Rdata(<<L_vspf1 \o <<" ">>, L_include \o N_c>>)>>),
          NoAnswer, DnsError, OtherException}

\* the zone of a chain of n nested includes b -> c -> ..., each publishing SPF
ChainText(i, n) ==
    IF i < n THEN JoinWords(<<L_vspf1, L_include \o ChainName(i + 1), L_mx>>)
    ELSE JoinWords(<<L_vspf1, L_a, W_minus_all>>)
ChainZone(n) ==
    [d \in AllNames |->
        IF \E i \in 1..n : d = ChainName(i)
        THEN {Answer(<<Rdata(<<ChainText(CHOOSE i \in 1..n : d = ChainName(i), n)>>)>>)}
        ELSE {NoAnswer}]
GenZone == [d \in AllNames |-> IF d \in GenNames THEN GenOutcomes ELSE {NoAnswer}]

----------------------------------------------------------------------------
(* dns_query_txt and resolve_spf_lookups *)

\* b"".join(r.strings).decode(...)
Concat(chunks) ==
    LET join[k \in 0..Len(chunks)] == IF k = 0 THEN <<>> ELSE join[k - 1] \o chunks[k]
    IN  join[Len(chunks)]

\* dns_query_txt: a DNSException becomes the empty list, any other exception
\* propagates, an answer becomes one joined string per rdata
dns_query_txt(out) ==
    IF out.kind = "exception" THEN [raised |-> TRUE, txts |-> <<>>]
    ELSE IF out.kind \in {"no_answer", "dns_error"} THEN [raised |-> FALSE, txts |-> <<>>]
    ELSE [raised |-> FALSE, txts |-> [k \in DOMAIN out.rdatas |-> Concat(out.rdatas[k])]]

\* t.strip().lower().startswith("v=spf1")
IsSpfText(t) == StartsWith(LowerStr(Strip(t)), L_vspf1)

\* found_spf = [t for t in inc_txts if t.strip().lower().startswith("v=spf1")]
FoundSpf(txts) == SelectSeq(txts, IsSpfText)

DepthError(name)  == [kind |-> "depth", at |-> name]
ResolveError(inc) == [kind |-> "resolve", at |-> inc]

Frame(name, txt, depth) ==
    [name |-> name, txt |-> txt, depth |-> depth, pc |-> "enter",
     incs |-> <<>>, inc |-> <<>>, spfs |-> <<>>]

Top == stack[Len(stack)]
Pop == SubSeq(stack, 1, Len(stack) - 1)
SetTop(f) == [stack EXCEPT ![Len(stack)] = f]

\* the guard off by one: depth > max_recursion + 1
DepthExceededLate(depth) == depth > max_recursion + 1

\* if depth > max_recursion
DepthExceeded(depth) == depth > max_recursion

\* the count overwritten instead of accumulated: lookup_count = len(mechs)
CountLookupsOverwrite(count, txt) == Len(MechanismFindAll(txt, 1))

\* lookup_count += len(mechs)
CountLookups(count, txt) == count + Len(MechanismFindAll(txt, 1))

\* visited.add(inc) forgotten
MarkVisitedNot(v, inc) == v

\* visited.add(inc)
MarkVisited(v, inc) == v \cup {inc}

\* a loop that never advances past its current element
NextIncludesStuck(incs) == incs

\* the for loop over SPF_INCLUDE_RE.findall(txt) moves to its next element
NextIncludes(incs) == Tail(incs)

Walking == mode \in {"spf", "chain"} /\ stack # <<>>

\* _recurse, from its entry to the start of the for loop
Enter ==
    /\ Walking /\ Top.pc = "enter"
    /\ entered' = Append(entered, [name |-> Top.name, txt |-> Top.txt, depth |-> Top.depth])
    /\ IF DepthExceeded(Top.depth)
       THEN /\ errors' = Append(errors, DepthError(Top.name))
            /\ stack' = Pop
            /\ UNCHANGED lookup_count
       ELSE /\ lookup_count' = CountLookups(lookup_count, Top.txt)
            /\ stack' = SetTop([Top EXCEPT !.pc = "for",
                                           !.incs = IncludeFindAll(Top.txt, 1)])
            /\ UNCHANGED errors
    /\ UNCHANGED <<mode, zone, max_recursion, visited, resolved, queries, answers,
                   parseVars, dkimVars, scoreVars>>

\* for inc ...: if inc in visited: continue
IncludeSkip ==
    /\ Walking /\ Top.pc = "for" /\ Top.incs # <<>>
    /\ Strip(Head(Top.incs)) \in visited
    /\ stack' = SetTop([Top EXCEPT !.incs = NextIncludes(Top.incs)])
    /\ UNCHANGED <<mode, zone, max_recursion, visited, resolved, errors, lookup_count,
                   queries, entered, answers, parseVars, dkimVars, scoreVars>>

\* for inc ...: visited.add(inc); await dns_query_txt(inc) is started
IncludeQuery ==
    /\ Walking /\ Top.pc = "for" /\ Top.incs # <<>>
    /\ LET inc == Strip(Head(Top.incs))
       IN  /\ inc \notin visited
           /\ visited' = MarkVisited(visited, inc)
           /\ queries' = Append(queries, [name |-> inc, depth |-> Top.depth])
           /\ stack' = SetTop([Top EXCEPT !.pc = "await", !.inc = inc,
                                          !.incs = NextIncludes(Top.incs)])
    /\ UNCHANGED <<mode, zone, max_recursion, resolved, errors, lookup_count,
                   entered, answers, parseVars, dkimVars, scoreVars>>

\* the query returns or raises: resolved.add(inc), or the except branch
QueryDone ==
    /\ Walking /\ Top.pc = "await"
    /\ \E out \in zone[Top.inc] :
         LET r == dns_query_txt(out)
         IN  /\ answers' = Append(answers, [name |-> Top.inc, kind |-> out.kind])
             /\ IF r.raised
                THEN /\ errors' = Append(errors, ResolveError(Top.inc))
                     /\ stack' = SetTop([Top EXCEPT !.pc = "for"])
                     /\ UNCHANGED resolved
                ELSE /\ resolved' = resolved \cup {Top.inc}
                     /\ stack' = SetTop([Top EXCEPT !.pc = "spfs",
                                                    !.spfs = FoundSpf(r.txts)])
                     /\ UNCHANGED errors
    /\ UNCHANGED <<mode, zone, max_recursion, visited, lookup_count, queries, entered,
                   parseVars, dkimVars, scoreVars>>

\* for s in found_spf: await _recurse(inc, s, depth + 1)
SpfNext ==
    /\ Walking /\ Top.pc = "spfs" /\ Top.spfs # <<>>
    /\ stack' = Append(SetTop([Top EXCEPT !.spfs = Tail(Top.spfs)]),
                       Frame(Top.inc, Head(Top.spfs), Top.depth + 1))
    /\ UNCHANGED <<mode, zone, max_recursion, visited, resolved, errors, lookup_count,
                   queries, entered, answers, parseVars, dkimVars, scoreVars>>

\* found_spf is exhausted (or empty): back to the for loop over the includes
SpfEnd ==
    /\ Walking /\ Top.pc = "spfs" /\ Top.spfs = <<>>
    /\ stack' = SetTop([Top EXCEPT !.pc = "for"])
    /\ UNCHANGED <<mode, zone, max_recursion, visited, resolved, errors, lookup_count,
                   queries, entered, answers, parseVars, dkimVars, scoreVars>>

\* the for loop ends: _recurse returns (the outermost return ends the call)
Return ==
    /\ Walking /\ Top.pc = "for" /\ Top.incs = <<>>
    /\ stack' = Pop
    /\ UNCHANGED <<mode, zone, max_recursion, visited, resolved, errors, lookup_count,
                   queries, entered, answers, parseVars, dkimVars, scoreVars>>

IdleParse == spf_text = <<>> /\ record = <<>> /\ parse_pc = "idle"
IdleDkim  == /\ aggressive = FALSE /\ published = {} /\ dkim_i = 0 /\ outstanding = {} /\ probes = <<>>
             /\ found = <<>> /\ dkim_pc = "idle"
IdleScore == /\ inp = <<>> /\ cur = <<>> /\ score = 0 /\ reasons = <<>> /\ deductions = 0
             /\ score_pc = "idle" /\ loop_i = 0
IdleSpf   == /\ zone = <<>> /\ max_recursion = 0 /\ stack = <<>> /\ visited = {}
             /\ resolved = {} /\ errors = <<>> /\ lookup_count = 0 /\ queries = <<>>
             /\ entered = <<>> /\ answers = <<>>

\* resolve_spf_lookups(domain, spf_text, max_recursion) is called
InitSpf ==
    /\ \/ /\ mode = "spf"
          /\ zone = GenZone
          /\ max_recursion \in 0..MaxRec
          /\ \E t \in GenTexts : stack = <<Frame(N_r, t, 0)>>
       \/ /\ mode = "chain"
          /\ \E n \in 1..MaxChain : zone = ChainZone(n)
          /\ max_recursion = MAX_INCLUDE_RECURSION
          /\ stack = <<Frame(N_r, JoinWords(<<L_vspf1, L_include \o ChainName(1)>>), 0)>>
    /\ visited = {} /\ resolved = {} /\ errors = <<>> /\ lookup_count = 0
    /\ queries = <<>> /\ entered = <<>> /\ answers = <<>>
    /\ IdleParse /\ IdleDkim /\ IdleScore

NextSpf == Enter \/ IncludeSkip \/ IncludeQuery \/ QueryDone \/ SpfNext \/ SpfEnd \/ Return

\* every query eventually returns or fails, and the event loop runs the coroutine
SpecSpf == InitSpf /\ [][NextSpf]_vars /\ WF_vars(NextSpf)

----------------------------------------------------------------------------
(* resolve_spf_lookups: properties *)

\* the call has returned
WalkDone == mode \in {"spf", "chain"} /\ stack = <<>>

\* the include targets SPF_INCLUDE_RE finds in an activation's text
IncludesOf(e) == Range(IncludeFindAll(e.txt, 1))

\* C1: resolve_spf_lookups always terminates: whatever the root text, max depth
\* and resolver answers (cycles, self-includes and includes of the root among
\* them), once every query returns or fails the call eventually returns.
C1_Terminates == <>WalkDone

\* a finished walk that met a self-include and an include of the root domain
C1_Witness ==
    /\ WalkDone
    /\ \E i \in DOMAIN entered :
         entered[i].depth >= 1 /\ entered[i].name \in IncludesOf(entered[i])
    /\ \E i \in DOMAIN entered :
         entered[i].depth >= 1 /\ N_r \in IncludesOf(entered[i])

\* C2: the visited set spans the whole walk: the resolver is queried at most
\* once per distinct include target, and every target queried is in visited.
C2_QueriedOnce ==
    /\ \A i, j \in DOMAIN queries : queries[i].name = queries[j].name => i = j
    /\ visited = {queries[i].name : i \in DOMAIN queries}

\* a finished walk in which two activations of different domains, both within
\* the depth limit, name the same include target
C2_Witness ==
    /\ WalkDone
    /\ \E i, j \in DOMAIN entered :
         /\ entered[i].name # entered[j].name
         /\ entered[i].depth <= max_recursion /\ entered[j].depth <= max_recursion
         /\ IncludesOf(entered[i]) \cap IncludesOf(entered[j]) # {}

\* the number of chain domains that publish an SPF record
ChainLen == Cardinality({d \in ChainNames : \E o \in zone[d] : o.kind = "answer"})

\* an activation that starts in this step
Entering == Len(entered') = Len(entered) + 1
LastEntered == entered'[Len(entered')]

\* C3: an SPF text reached at depth > max_recursion is cut off: one error
\* naming its domain is appended, none of its mechanisms are counted, none of
\* its includes are queried (no query is ever issued from beyond the limit),
\* and the activation returns; a chain of max_recursion + 1 nested includes,
\* each publishing SPF, ends with a depth error and the call returned.
C3_DepthGuard ==
    /\ [][(Entering /\ LastEntered.depth > max_recursion) =>
            /\ errors' = Append(errors, DepthError(LastEntered.name))
            /\ lookup_count' = lookup_count
            /\ queries' = queries
            /\ stack' = Pop]_vars
    /\ [][(Entering /\ LastEntered.depth <= max_recursion) => errors' = errors]_vars
    /\ [](\A i \in DOMAIN queries : queries[i].depth <= max_recursion)
    /\ []((WalkDone /\ mode = "chain" /\ ChainLen >= max_recursion + 1) =>
            \E i \in DOMAIN errors : errors[i].kind = "depth")

\* the chain of 11 nested includes with the default limit 10: the 11th domain
\* is cut off and the call has returned
C3_Witness ==
    /\ WalkDone /\ mode = "chain" /\ max_recursion = MAX_INCLUDE_RECURSION
    /\ ChainLen = MAX_INCLUDE_RECURSION + 1
    /\ errors = <<DepthError(ChainName(MAX_INCLUDE_RECURSION + 1))>>

\* C4 (as claimed): every include whose DNS query failed with a resolver
\* error has an error naming it in errors and is not in resolved_domains.
C4_FailureRecorded ==
    \A i \in DOMAIN answers :
        answers[i].kind \in {"dns_error", "exception"} =>
            /\ answers[i].name \notin resolved
            /\ ResolveError(answers[i].name) \in Range(errors)

\* the lookup-costing mechanisms of the activations logged so far that were
\* within the depth limit
CountedMechanisms(log) ==
    LET sum[k \in 0..Len(log)] ==
            IF k = 0 THEN 0
            ELSE sum[k - 1] + (IF log[k].depth <= max_recursion
                               THEN Len(MechanismFindAll(log[k].txt, 1)) ELSE 0)
    IN  sum[Len(log)]

\* C5: lookup_count never decreases, and at every moment (so also on return,
\* and before any include of a node is queried) it is the sum of the
\* lookup-costing mechanisms of the texts entered at depth <= max_recursion.
C5_LookupAccounting ==
    /\ [](lookup_count = CountedMechanisms(entered))
    /\ [][lookup_count' >= lookup_count]_vars

\* a finished walk that counted a node whose include failed, recursed into a
\* second text and cut one off
C5_Witness ==
    /\ WalkDone
    /\ lookup_count > 0
    /\ \E i \in DOMAIN answers : answers[i].kind \in {"dns_error", "exception", "no_answer"}
    /\ \E i \in DOMAIN entered : entered[i].depth = max_recursion /\ entered[i].depth > 0
    /\ \E i \in DOMAIN entered : entered[i].depth > max_recursion

----------------------------------------------------------------------------
(* check_dkim_selector and discover_dkim_selectors *)

DEFAULT_DKIM_SELECTORS ==
    <<"default", "selector1", "s1", "google", "google1", "mail", "smtp", "dkim",
      "mx", "selector", "k1", "k2", "mta">>
AGGRESSIVE_DKIM_SELECTORS ==
    <<"default", "selector", "selector1", "selector2", "s", "s1", "s2", "sel", "mail",
      "smtp", "mx", "dkim", "k", "key", "google", "google1", "google2", "mta",
      "amazonses", "k1", "k2", "201608", "2019", "2020", "2021", "2022", "mail1",
      "mail2", "smtp1", "sendgrid", "mailgun", "mandrill", "zoho", "outlook", "office",
      "o365", "microsoft", "sparkpost", "postfix", "postmark", "mailchimp", "ses",
      "sendinblue", "elasticemail", "yandex", "icloud", "protonmail", "fastmail", "gws",
      "gapp", "domainkey", "email", "hosted", "secure", "info", "securemail">>

\* "v=DKIM1; k=rsa; p=QUJD"
T_dkim == <<"v","=","D","K","I","M","1",";"," ","k","=","r","s","a",";"," ",
            "p","=","Q","U","J","D">>
\* "p=-": a revoked key
T_revoked == <<"p","=","-">>

\* the selectors a zone may publish: google and mx come in opposite orders in
\* the two candidate lists, securemail is in the long list only, and
\* "unlisted" is in neither
ZoneSelectors == {"default", "google", "mx", "securemail", "unlisted"}

\* the outcomes the TXT query of a selector's name may have
DkimOutcomes(sel) ==
    IF sel \in published
    THEN {Answer(<<Rdata(<<T_dkim>>)>>), Answer(<<Rdata(<<T_other>>), Rdata(<<T_revoked>>)>>),
          OtherException}
    ELSE {NoAnswer, DnsError, OtherException}

\* lit in t (case-sensitive)
Contains(t, lit) == \E i \in DOMAIN t : i + Len(lit) - 1 <= Len(t) /\ SubSeq(t, i, i + Len(lit) - 1) = lit

\* re.search(r"\b<tag>=([^;]+)", t): the group of the leftmost match, stripped
\* (<<>>: no match, or an empty value)
TagValue(t, tag) ==
    LET lit  == <<tag, "=">>
        ok(i) == /\ WordBoundary(t, i)
                 /\ i + 2 <= Len(t)
                 /\ SubSeq(t, i, i + 1) = lit
                 /\ t[i + 2] # ";"
        hits == {i \in DOMAIN t : ok(i)}
    IN  IF hits = {} THEN <<>>
        ELSE LET i     == CHOOSE i \in hits : \A j \in hits : i <= j
                 stops == {j \in (i + 2)..(Len(t) + 1) : j = Len(t) + 1 \/ t[j] = ";"}
                 e     == CHOOSE j \in stops : \A k \in stops : j <= k
             IN  Strip(SubSeq(t, i + 2, e - 1))

\* re.sub(r"\s+", "", pub)
RemoveSpaces(u) == SelectSeq(u, LAMBDA c : ~IsSpace(c))

\* check_dkim_selector, given the TXT strings its query returned
check_dkim_selector(selector, txts) ==
    IF txts = <<>>
    THEN [selector |-> selector, present |-> FALSE, raw |-> <<>>, key_type |-> <<>>,
          key_bits_approx |-> 0, has_pub |-> FALSE]
    ELSE LET cand == {i \in DOMAIN txts :
                        Contains(txts[i], <<"v","=","D","K","I","M","1">>)
                        \/ Contains(txts[i], <<"p","=">>)}
             dkim_txt == IF cand = {} THEN txts[1]
                         ELSE txts[CHOOSE i \in cand : \A j \in cand : i <= j]
             pub == TagValue(dkim_txt, "p")
             has_pub == pub # <<>> /\ pub # <<"-">>
         IN  [selector |-> selector, present |-> TRUE, raw |-> dkim_txt,
              key_type |-> TagValue(dkim_txt, "k"),
              key_bits_approx |-> IF has_pub THEN Len(RemoveSpaces(pub)) * 6 ELSE 0,
              has_pub |-> has_pub]

\* selectors = AGGRESSIVE_DKIM_SELECTORS if aggressive else DEFAULT_DKIM_SELECTORS
Selectors == IF aggressive THEN AGGRESSIVE_DKIM_SELECTORS ELSE DEFAULT_DKIM_SELECTORS

\* a loop that stops at the first selector found
LoopFinishedEarly == dkim_i = Len(Selectors) \/ found # <<>>

\* for sel in selectors: the list is exhausted
LoopFinished == dkim_i = Len(Selectors)

\* for sel in selectors: the query of check_dkim_selector(domain, sel) is started
ProbeStart ==
    /\ mode = "dkim" /\ dkim_pc = "loop" /\ ~LoopFinished
    /\ dkim_i' = dkim_i + 1
    /\ outstanding' = outstanding \cup {Selectors[dkim_i + 1]}
    /\ dkim_pc' = "await"
    /\ UNCHANGED <<mode, aggressive, published, probes, found, spfVars, parseVars, scoreVars>>

\* the query returns: info is built, and appended to found if present
ProbeDone ==
    /\ mode = "dkim" /\ dkim_pc = "await"
    /\ \E out \in DkimOutcomes(Selectors[dkim_i]) :
         LET r    == dns_query_txt(out)
             info == check_dkim_selector(Selectors[dkim_i], r.txts)
         IN  /\ outstanding' = outstanding \ {Selectors[dkim_i]}
             /\ IF r.raised
                THEN /\ dkim_pc' = "raised"
                     /\ UNCHANGED <<probes, found>>
                ELSE /\ dkim_pc' = "loop"
                     /\ probes' = Append(probes, [selector |-> Selectors[dkim_i],
                                                  present |-> r.txts # <<>>])
                     /\ found' = IF info.present THEN Append(found, info) ELSE found
    /\ UNCHANGED <<mode, aggressive, published, dkim_i, spfVars, parseVars, scoreVars>>

\* return found
DiscoverReturn ==
    /\ mode = "dkim" /\ dkim_pc = "loop" /\ LoopFinished
    /\ dkim_pc' = "done"
    /\ UNCHANGED <<mode, aggressive, published, dkim_i, outstanding, probes, found,
                   spfVars, parseVars, scoreVars>>

\* discover_dkim_selectors(domain, aggressive) is called
InitDkim ==
    /\ mode = "dkim"
    /\ aggressive \in BOOLEAN
    /\ published \in SUBSET ZoneSelectors
    /\ dkim_i = 0 /\ outstanding = {} /\ probes = <<>> /\ found = <<>> /\ dkim_pc = "loop"
    /\ IdleSpf /\ IdleParse /\ IdleScore

NextDkim == ProbeStart \/ ProbeDone \/ DiscoverReturn

SpecDkim == InitDkim /\ [][NextDkim]_vars

\* the probes logged as present, in the log's order
PresentProbes == SelectSeq(probes, LAMBDA q : q.present)

\* the candidates the zone publishes, in candidate-list order
PublishedInListOrder == SelectSeq(Selectors, LAMBDA x : x \in published)

\* C6: at most one probe is outstanding; the probes made so far are the
\* candidate list's prefix, in list order, each selector once; found is always
\* the present probes in that order; and a call that returns has probed every
\* candidate of the chosen list (no early exit after a match) and returns the
\* published candidates in candidate-list order.
C6_SequentialExhaustive ==
    /\ Cardinality(outstanding) <= 1
    /\ Len(probes) <= Len(Selectors)
    /\ \A k \in DOMAIN probes : probes[k].selector = Selectors[k]
    /\ Len(found) = Len(PresentProbes)
    /\ \A k \in DOMAIN found :
         found[k].selector = PresentProbes[k].selector /\ found[k].present
    /\ dkim_pc = "await" => outstanding = {Selectors[dkim_i]} /\ Len(probes) = dkim_i - 1
    /\ dkim_pc = "done" =>
         /\ Len(probes) = Len(Selectors)
         /\ outstanding = {}
         /\ Selectors = IF aggressive THEN AGGRESSIVE_DKIM_SELECTORS
                        ELSE DEFAULT_DKIM_SELECTORS
         /\ \A j, k \in DOMAIN Selectors : Selectors[j] = Selectors[k] => j = k
         /\ [k \in DOMAIN found |-> found[k].selector] = PublishedInListOrder

\* an aggressive discovery that returned the first candidate, then mx before
\* google (the long list's order), then the last candidate: probing went on
\* after each match
C6_Witness ==
    /\ dkim_pc = "done" /\ aggressive
    /\ [k \in DOMAIN found |-> found[k].selector] = <<"default", "mx", "google", "securemail">>

----------------------------------------------------------------------------
(* score_and_conclusions.  Its arguments are read where the code reads them:  *)
(* each rule draws the value it tests, so every argument list is one run.     *)

MaxSpfRecords == 2           \* largest len(spf_records) drawn
MaxDetails == 1              \* largest len(spf_details) drawn
MaxDkim == 1                 \* largest len(dkim_infos) drawn

S_plus_all  == <<"+">> \o L_all
S_q_all     == <<"?">> \o L_all
S_none      == <<"n","o","n","e">>
S_quarantine == <<"q","u","a","r","a","n","t","i","n","e">>
S_reject    == <<"r","e","j","e","c","t">>

\* d.get("all_mechanism"): None (<<>>) or a string
AllMechInputs == {<<>>, S_plus_all, S_q_all, W_tilde_all, W_minus_all, <<"+","A","L","L">>}
\* spf_lookup_count
LookupInputs == {0, SPF_DNS_LOOKUP_LIMIT - 3, SPF_DNS_LOOKUP_LIMIT - 2,
                 SPF_DNS_LOOKUP_LIMIT, SPF_DNS_LOOKUP_LIMIT + 1}
\* dmarc_tags.get("p"): missing (<<>>) or a string
PolicyInputs == {<<>>, <<"N","o","n","e">>, S_quarantine, S_reject, <<"x">>}
\* dmarc_tags.get("pct"): missing (<<>>) or a string
PctInputs == {<<>>, <<"5","0">>, <<" ","1","0","0">>, <<"-","5">>, <<"5","0","%">>}
\* SPF arguments handed in along with an empty spf_records
IgnoredSpfInputs ==
    [spf_details : {<<>>, <<S_plus_all>>, <<<<>>, W_tilde_all>>},
     spf_lookup_count : {0, SPF_DNS_LOOKUP_LIMIT + 1},
     spf_errors : {<<>>, <<ResolveError(N_b)>>}]
\* kinfo.get("key_bits_approx"): None or 0 (0), or an estimate
BitsInputs == {0, 1023, 1024, 2047, 2048}

DigitChars == <<"0","1","2","3","4","5","6","7","8","9">>

\* int(v): [ok |-> FALSE] when it raises ValueError
PyInt(v) ==
    LET t    == Strip(v)
        sign == t # <<>> /\ t[1] \in {"-", "+"}
        body == IF sign THEN Tail(t) ELSE t
        ok   == body # <<>> /\ \A i \in DOMAIN body : body[i] \in Digits
        val[k \in 0..Len(body)] ==
            IF k = 0 THEN 0
            ELSE 10 * val[k - 1] + (CHOOSE d \in 0..9 : DigitChars[d + 1] = body[k])
    IN  IF ~ok THEN [ok |-> FALSE, val |-> 0]
        ELSE [ok |-> TRUE, val |-> IF t[1] = "-" THEN 0 - val[Len(body)] ELSE val[Len(body)]]

\* try: pct = int(dmarc_tags.get("pct", "100")) except Exception: pct = 100
PctOf(v) ==
    LET r == PyInt(IF v = <<>> THEN <<"1","0","0">> ELSE v)
    IN  IF r.ok THEN r.val ELSE 100

\* reasons.append(r) forgotten
AddReasonDropped(rs, r) == rs

\* reasons.insert(0, r)
AddReasonInFront(rs, r) == <<r>> \o rs

\* reasons.append(r)
AddReason(rs, r) == Append(rs, r)

\* the final clamp left out
ClampMissing(sc) == sc

\* if score < 0: score = 0; if score > 100: score = 100
Clamp(sc) == IF sc < 0 THEN 0 ELSE IF sc > 100 THEN 100 ELSE sc

\* score -= n
Deduct(n) == score' = score - n /\ deductions' = deductions + 1

Scoring == mode = "score"

\* if not spf_records: -40
RuleNoSpf ==
    /\ Scoring /\ score_pc = "spf"
    /\ inp' = [inp EXCEPT !.nspf = 0]
    /\ cur' \in IgnoredSpfInputs
    /\ Deduct(40)
    /\ reasons' = AddReason(reasons, <<"no_spf">>)
    /\ score_pc' = "dmarc"
    /\ UNCHANGED <<mode, loop_i, spfVars, parseVars, dkimVars>>

\* else: if len(spf_records) > 1: -30
RuleSpfCount ==
    /\ Scoring /\ score_pc = "spf"
    /\ \E n \in 1..MaxSpfRecords :
         /\ inp' = [inp EXCEPT !.nspf = n]
         /\ IF n > 1
            THEN Deduct(30) /\ reasons' = AddReason(reasons, <<"multiple_spf">>)
            ELSE UNCHANGED <<score, deductions, reasons>>
    /\ score_pc' = "details" /\ loop_i' = 0
    /\ UNCHANGED <<mode, cur, spfVars, parseVars, dkimVars>>

\* for d in spf_details: the branch on d's all_mechanism
RuleDetail ==
    /\ Scoring /\ score_pc = "details" /\ loop_i < MaxDetails
    /\ \E all_mech \in AllMechInputs :
         /\ cur' = all_mech
         /\ IF all_mech = <<>>
            THEN reasons' = AddReason(reasons, <<"spf_no_all">>) /\ Deduct(5)
            ELSE IF LowerStr(all_mech) = S_plus_all
            THEN Deduct(25) /\ reasons' = AddReason(reasons, <<"spf_plus_all">>)
            ELSE IF LowerStr(all_mech) = S_q_all
            THEN Deduct(10) /\ reasons' = AddReason(reasons, <<"spf_neutral_all">>)
            ELSE IF LowerStr(all_mech) = W_tilde_all
            THEN Deduct(3) /\ reasons' = AddReason(reasons, <<"spf_softfail_all">>)
            ELSE IF LowerStr(all_mech) = W_minus_all
            THEN /\ reasons' = AddReason(reasons, <<"spf_reject_all">>)
                 /\ UNCHANGED <<score, deductions>>
            ELSE UNCHANGED <<score, deductions, reasons>>
    /\ loop_i' = loop_i + 1
    /\ UNCHANGED <<mode, inp, score_pc, spfVars, parseVars, dkimVars>>

\* elif spf_lookup_count >= (SPF_DNS_LOOKUP_LIMIT - 3)
CloseToLimitInclusive(count) == count >= SPF_DNS_LOOKUP_LIMIT - 3

\* elif spf_lookup_count > (SPF_DNS_LOOKUP_LIMIT - 3)
CloseToLimit(count) == count > SPF_DNS_LOOKUP_LIMIT - 3

\* after the loop: if spf_lookup_count > LIMIT: -20, elif > LIMIT - 3: -7
RuleLookups ==
    /\ Scoring /\ score_pc = "details"
    /\ \E spf_lookup_count \in LookupInputs :
         /\ cur' = spf_lookup_count
         /\ IF spf_lookup_count > SPF_DNS_LOOKUP_LIMIT
            THEN /\ Deduct(20)
                 /\ reasons' = AddReason(reasons, <<"spf_lookups_over", spf_lookup_count,
                                                    SPF_DNS_LOOKUP_LIMIT>>)
            ELSE IF CloseToLimit(spf_lookup_count)
            THEN /\ Deduct(7)
                 /\ reasons' = AddReason(reasons, <<"spf_lookups_close", spf_lookup_count>>)
            ELSE UNCHANGED <<score, deductions, reasons>>
    /\ score_pc' = "dmarc"
    /\ UNCHANGED <<mode, inp, loop_i, spfVars, parseVars, dkimVars>>

\* if not dmarc_text: -30
RuleNoDmarc ==
    /\ Scoring /\ score_pc = "dmarc"
    /\ inp' = [inp EXCEPT !.dmarc = "absent"]
    /\ Deduct(30)
    /\ reasons' = AddReason(reasons, <<"no_dmarc">>)
    /\ score_pc' = "dkim" /\ loop_i' = 0
    /\ UNCHANGED <<mode, cur, spfVars, parseVars, dkimVars>>

\* else: the branch on p
RuleDmarcPolicy ==
    /\ Scoring /\ score_pc = "dmarc"
    /\ inp' = [inp EXCEPT !.dmarc = "present"]
    /\ \E tag \in PolicyInputs :
         LET pol == LowerStr(tag)
         IN  /\ cur' = tag
             /\ IF pol = S_none \/ pol = <<>>
                THEN Deduct(10) /\ reasons' = AddReason(reasons, <<"dmarc_none">>)
                ELSE IF pol = S_quarantine
                THEN Deduct(3) /\ reasons' = AddReason(reasons, <<"dmarc_quarantine">>)
                ELSE IF pol = S_reject
                THEN /\ reasons' = AddReason(reasons, <<"dmarc_reject">>)
                     /\ UNCHANGED <<score, deductions>>
                ELSE UNCHANGED <<score, deductions, reasons>>
    /\ score_pc' = "pct"
    /\ UNCHANGED <<mode, loop_i, spfVars, parseVars, dkimVars>>

\* if pct < 100: -5
RulePct ==
    /\ Scoring /\ score_pc = "pct"
    /\ \E tag \in PctInputs :
         /\ cur' = tag
         /\ IF PctOf(tag) < 100
            THEN Deduct(5) /\ reasons' = AddReason(reasons, <<"dmarc_pct", PctOf(tag)>>)
            ELSE UNCHANGED <<score, deductions, reasons>>
    /\ score_pc' = "rua"
    /\ UNCHANGED <<mode, inp, loop_i, spfVars, parseVars, dkimVars>>

\* if "rua" not in dmarc_tags: -3
RuleRua ==
    /\ Scoring /\ score_pc = "rua"
    /\ \E has_rua \in BOOLEAN :
         /\ cur' = <<has_rua>>
         /\ IF ~has_rua
            THEN reasons' = AddReason(reasons, <<"dmarc_no_rua">>) /\ Deduct(3)
            ELSE UNCHANGED <<score, deductions, reasons>>
    /\ score_pc' = "dkim" /\ loop_i' = 0
    /\ UNCHANGED <<mode, inp, spfVars, parseVars, dkimVars>>

\* if not dkim_infos: -10
RuleNoDkim ==
    /\ Scoring /\ score_pc = "dkim"
    /\ inp' = [inp EXCEPT !.dkim = "empty"]
    /\ reasons' = AddReason(reasons, <<"no_dkim">>)
    /\ Deduct(10)
    /\ score_pc' = "clamp"
    /\ UNCHANGED <<mode, cur, loop_i, spfVars, parseVars, dkimVars>>

\* else: for kinfo in dkim_infos: the branch on key_bits_approx
RuleDkimKey ==
    /\ Scoring /\ score_pc \in {"dkim", "dkimloop"} /\ loop_i < MaxDkim
    /\ inp' = [inp EXCEPT !.dkim = "some"]
    /\ \E bits \in BitsInputs :
         /\ cur' = bits
         /\ IF bits = 0
            THEN UNCHANGED <<score, deductions, reasons>>
            ELSE IF bits < 1024
            THEN Deduct(10) /\ reasons' = AddReason(reasons, <<"dkim_weak", bits>>)
            ELSE IF bits < 2048
            THEN Deduct(3) /\ reasons' = AddReason(reasons, <<"dkim_medium", bits>>)
            ELSE /\ reasons' = AddReason(reasons, <<"dkim_ok", bits>>)
                 /\ UNCHANGED <<score, deductions>>
    /\ score_pc' = "dkimloop" /\ loop_i' = loop_i + 1
    /\ UNCHANGED <<mode, spfVars, parseVars, dkimVars>>

\* the clamp and return {"score": score, "reasons": reasons}
ClampReturn ==
    /\ Scoring /\ score_pc \in {"clamp", "dkimloop"}
    /\ score' = Clamp(score)
    /\ score_pc' = "done"
    /\ UNCHANGED <<mode, inp, cur, reasons, deductions, loop_i, spfVars, parseVars, dkimVars>>

\* score = 100; reasons = []
InitScore ==
    /\ mode = "score"
    /\ inp = [nspf |-> -1, dmarc |-> "unread", dkim |-> "unread"]
    /\ cur = <<>> /\ score = 100 /\ reasons = <<>> /\ deductions = 0
    /\ score_pc = "spf" /\ loop_i = 0
    /\ IdleSpf /\ IdleParse /\ IdleDkim

NextScore ==
    \/ RuleNoSpf \/ RuleSpfCount \/ RuleDetail \/ RuleLookups
    \/ RuleNoDmarc \/ RuleDmarcPolicy \/ RulePct \/ RuleRua
    \/ RuleNoDkim \/ RuleDkimKey \/ ClampReturn

SpecScore == InitScore /\ [][NextScore]_vars

\* C7: the returned score is an integer within 0..100.
C7_ScoreInRange == score_pc = "done" => score \in 0..100

\* a return whose deductions sum past 100: two records (-30), +all (-25),
\* lookups over the limit (-20), no DMARC (-30), no DKIM (-10)
C7_Witness ==
    /\ score_pc = "done" /\ score = 0
    /\ reasons = <<<<"multiple_spf">>, <<"spf_plus_all">>,
                   <<"spf_lookups_over", SPF_DNS_LOOKUP_LIMIT + 1, SPF_DNS_LOOKUP_LIMIT>>,
                   <<"no_dmarc">>, <<"no_dkim">>>>

\* C8: with no SPF records, no DMARC record and no DKIM selectors the result
\* is score 20 and exactly the three absence reasons, SPF, DMARC, DKIM in that
\* order, whatever SPF details, lookup count and errors are handed in.
C8_NothingFound ==
    (score_pc = "done" /\ inp.nspf = 0 /\ inp.dmarc = "absent" /\ inp.dkim = "empty") =>
        /\ score = 20
        /\ reasons = <<<<"no_spf">>, <<"no_dmarc">>, <<"no_dkim">>>>

\* nothing found, with a +all detail, a lookup count over the limit and an
\* SPF error handed in
C8_Witness ==
    /\ score_pc = "done" /\ inp.nspf = 0 /\ inp.dmarc = "absent" /\ inp.dkim = "empty"
    /\ cur = [spf_details |-> <<S_plus_all>>,
              spf_lookup_count |-> SPF_DNS_LOOKUP_LIMIT + 1,
              spf_errors |-> <<ResolveError(N_b)>>]

\* C9: every step that lowers the score appends a reason in the same step, the
\* deductions made never outnumber the reasons, and a returned score below 100
\* comes with a non-empty reasons list.
C9_DeductionsExplained ==
    /\ [][score' < score => Len(reasons') > Len(reasons)]_vars
    /\ [](deductions <= Len(reasons))
    /\ []((score_pc = "done" /\ score < 100) => reasons # <<>>)

\* a return with a deduction and with a reason that deducted nothing
C9_Witness ==
    /\ score_pc = "done" /\ score < 100
    /\ deductions >= 1 /\ deductions < Len(reasons)

\* the step that evaluates the lookup-limit rule (taken only when
\* spf_records is not empty); cur' is the spf_lookup_count it read
LookupRuleStep == Scoring /\ score_pc = "details" /\ score_pc' = "dmarc"

OverReason(count)  == <<"spf_lookups_over", count, 10>>
CloseReason(count) == <<"spf_lookups_close", count>>

\* the indices of the reasons written by the lookup-limit rule
LookupReasonsIn(rs) ==
    {i \in DOMAIN rs : rs[i][1] \in {"spf_lookups_over", "spf_lookups_close"}}

\* C11 as amended: with at least one SPF record, a lookup count above 10
\* deducts exactly 20 with one reason carrying the count and the limit 10;
\* otherwise a count of 8, 9 or 10 (limit - count < 3) deducts exactly 7 with
\* one close-to-limit reason carrying the count; a count of 7 or less deducts
\* nothing and adds no reason; no run holds two reasons of this rule.
C11_LookupLimitRule ==
    /\ [][LookupRuleStep =>
            /\ inp.nspf >= 1
            /\ IF cur' > 10
               THEN score' = score - 20 /\ reasons' = Append(reasons, OverReason(cur'))
               ELSE IF cur' \in 8..10
               THEN score' = score - 7 /\ reasons' = Append(reasons, CloseReason(cur'))
               ELSE score' = score /\ reasons' = reasons]_<<score_pc, score, reasons>>
    /\ [](Cardinality(LookupReasonsIn(reasons)) <= 1)

\* the rule has just read a count of 7 (limit - 3) and deducted nothing, after
\* a detail that did deduct
C11_Witness ==
    /\ Scoring /\ score_pc = "dmarc" /\ inp.nspf >= 1 /\ cur = 7
    /\ score < 100 /\ LookupReasonsIn(reasons) = {}

\* C11 as stated: with at least one SPF record, a lookup count above 10
\* deducts exactly 20 with one reason carrying the count and the limit;
\* otherwise a count within 3 of the limit (limit - count <= 3, counts 7 to
\* 10) deducts exactly 7 with one close-to-limit reason; a lower count deducts
\* nothing and adds no reason.
C11_LookupLimitRuleAsStated ==
    [][LookupRuleStep =>
         IF cur' > 10
         THEN score' = score - 20 /\ reasons' = Append(reasons, OverReason(cur'))
         ELSE IF 10 - cur' <= 3
         THEN score' = score - 7 /\ reasons' = Append(reasons, CloseReason(cur'))
         ELSE score' = score /\ reasons' = reasons]_<<score_pc, score, reasons>>

----------------------------------------------------------------------------
(* parse_spf on bounded texts *)

MaxParseLen == 5             \* longest text drawn from the alphabet

ParseAlphabet == {" ", "~", "-", "a", "l", "A"}

\* "v=spf1 include:a.com a mx ~all"
T_example == JoinWords(<<L_vspf1, L_include \o <<"a",".","c","o","m">>, L_a, L_mx,
                         W_tilde_all>>)

ParseTexts ==
    UNION {[1..n -> ParseAlphabet] : n \in 0..MaxParseLen}
    \cup {T_example, T_b, T_none, JoinWords(<<L_vspf1, L_mx \o W_minus_all>>)}

\* parse_spf(spf_text) is called and returns
ParseSpf ==
    /\ mode = "parse" /\ parse_pc = "call"
    /\ record' = parse_spf(spf_text)
    /\ parse_pc' = "done"
    /\ UNCHANGED <<mode, spf_text, spfVars, dkimVars, scoreVars>>

InitParse ==
    /\ mode = "parse"
    /\ spf_text \in ParseTexts
    /\ record = <<>> /\ parse_pc = "call"
    /\ IdleSpf /\ IdleDkim /\ IdleScore

NextParse == ParseSpf

SpecParse == InitParse /\ [][NextParse]_vars

\* one of ~all, -all, +all, ?all (any case) starts at position i of s
AllTokenAt(s, i) == i \in DOMAIN s /\ s[i] \in AllQualifiers /\ MatchLit(s, i + 1, L_all)

\* ... and is a whitespace-separated term of s
AllTermAt(s, i) ==
    /\ AllTokenAt(s, i)
    /\ (i = 1 \/ IsSpace(s[i - 1]))
    /\ (i + Len(L_all) = Len(s) \/ IsSpace(s[i + Len(L_all) + 1]))

\* C10 (as claimed): all_mechanism is absent when the text holds none of the
\* four tokens; when the text has one of them as a whitespace-separated term,
\* all_mechanism is the leftmost token of the text; and it is always absent
\* or one of +all, -all, ~all, ?all (any case).
C10_AllMechanism ==
    parse_pc = "done" =>
        LET tokens == {i \in DOMAIN spf_text : AllTokenAt(spf_text, i)}
            first  == CHOOSE i \in tokens : \A j \in tokens : i <= j
        IN  /\ tokens = {} => record.all_mechanism = <<>>
            /\ (\E i \in tokens : AllTermAt(spf_text, i)) =>
                   record.all_mechanism = SubSeq(spf_text, first, first + Len(L_all))
            /\ \/ record.all_mechanism = <<>>
               \/ LowerStr(record.all_mechanism) \in
                      {S_plus_all, S_q_all, W_tilde_all, W_minus_all}

====
